---- MODULE Spec2Model ----
(***************************************************************************)
(* Model of libavcodec/av3a_parser.c: the AVS3 audio (av3a) frame header   *)
(* decoder read_av3a_frame_header and the parser callback raw_av3a_parse.  *)
(***************************************************************************)
EXTENDS Integers, Sequences, FiniteSets, TLC

(***************************************************************************)
(* Program constants                                                       *)
(***************************************************************************)
AVS3_AUDIO_HEADER_SIZE == 7
MAX_NBYTES_FRAME_HEADER == 9
AVS3_AUDIO_SYNC_WORD == 4095
AVS3_AUDIO_FRAME_SIZE == 1024
AVS3_SIZE_BITRATE_TABLE == 16
AVS3_SIZE_FS_TABLE == 9
AVS3_SIZE_MC_CONFIG_TABLE == 10
AVS3_CODEC_ID == 2

CHANNEL_CONFIG_MONO == 0
CHANNEL_CONFIG_STEREO == 1
CHANNEL_CONFIG_MC_5_1 == 2
CHANNEL_CONFIG_MC_7_1 == 3
CHANNEL_CONFIG_MC_10_2 == 4
CHANNEL_CONFIG_MC_22_2 == 5
CHANNEL_CONFIG_MC_4_0 == 6
CHANNEL_CONFIG_MC_5_1_2 == 7
CHANNEL_CONFIG_MC_5_1_4 == 8
CHANNEL_CONFIG_MC_7_1_2 == 9
CHANNEL_CONFIG_MC_7_1_4 == 10
CHANNEL_CONFIG_HOA_ORDER1 == 11
CHANNEL_CONFIG_HOA_ORDER2 == 12
CHANNEL_CONFIG_HOA_ORDER3 == 13
CHANNEL_CONFIG_UNKNOWN == 14

\* libavutil constants used by the parser
AVERROR_INVALIDDATA == -1094995529
AV_SAMPLE_FMT_U8 == 0
AV_SAMPLE_FMT_S16 == 1

\* channel layouts are kept as tags; NO_LAYOUT is the mask 0
NO_LAYOUT == "0"
AV_CH_LAYOUT_MONO == "MONO"
AV_CH_LAYOUT_STEREO == "STEREO"
AVS3P3_CH_LAYOUT_5POINT1 == "5POINT1"
AV_CH_LAYOUT_7POINT1 == "7POINT1"
AV_CH_LAYOUT_22POINT2 == "22POINT2"

UINT16 == 65536

(***************************************************************************)
(* Static tables                                                           *)
(***************************************************************************)
mcChannelConfigTable ==
    << [channelNumConfig |-> CHANNEL_CONFIG_STEREO,   numChannels |-> 2],
       [channelNumConfig |-> CHANNEL_CONFIG_MC_5_1,   numChannels |-> 6],
       [channelNumConfig |-> CHANNEL_CONFIG_MC_7_1,   numChannels |-> 8],
       [channelNumConfig |-> CHANNEL_CONFIG_MC_10_2,  numChannels |-> 12],
       [channelNumConfig |-> CHANNEL_CONFIG_MC_22_2,  numChannels |-> 24],
       [channelNumConfig |-> CHANNEL_CONFIG_MC_4_0,   numChannels |-> 4],
       [channelNumConfig |-> CHANNEL_CONFIG_MC_5_1_2, numChannels |-> 8],
       [channelNumConfig |-> CHANNEL_CONFIG_MC_5_1_4, numChannels |-> 10],
       [channelNumConfig |-> CHANNEL_CONFIG_MC_7_1_2, numChannels |-> 10],
       [channelNumConfig |-> CHANNEL_CONFIG_MC_7_1_4, numChannels |-> 12] >>

avs3_samplingrate_table ==
    << 192000, 96000, 48000, 44100, 32000, 24000, 22050, 16000, 8000 >>

bitrateTableMono ==
    << 16000, 32000, 44000, 56000, 64000, 72000, 80000, 96000,
       128000, 144000, 164000, 192000, 0, 0, 0, 0 >>
bitrateTableStereo ==
    << 24000, 32000, 48000, 64000, 80000, 96000, 128000, 144000,
       192000, 256000, 320000, 0, 0, 0, 0, 0 >>
bitrateTableMC5P1 ==
    << 192000, 256000, 320000, 384000, 448000, 512000, 640000, 720000,
       144000, 96000, 128000, 160000, 0, 0, 0, 0 >>
bitrateTableMC7P1 ==
    << 192000, 480000, 256000, 384000, 576000, 640000, 128000, 160000,
       0, 0, 0, 0, 0, 0, 0, 0 >>
bitrateTableMC4P0 ==
    << 48000, 96000, 128000, 192000, 256000, 0, 0, 0, 0, 0, 0, 0, 0, 0, 0, 0 >>
bitrateTableMC5P1P2 ==
    << 152000, 320000, 480000, 576000, 0, 0, 0, 0, 0, 0, 0, 0, 0, 0, 0, 0 >>
bitrateTableMC5P1P4 ==
    << 176000, 384000, 576000, 704000, 256000, 448000, 0, 0, 0, 0, 0, 0, 0, 0, 0, 0 >>
bitrateTableMC7P1P2 ==
    << 216000, 480000, 576000, 384000, 768000, 0, 0, 0, 0, 0, 0, 0, 0, 0, 0, 0 >>
bitrateTableMC7P1P4 ==
    << 240000, 608000, 384000, 512000, 832000, 0, 0, 0, 0, 0, 0, 0, 0, 0, 0, 0 >>
bitrateTableFoa ==
    << 48000, 96000, 128000, 192000, 256000, 0, 0, 0, 0, 0, 0, 0, 0, 0, 0, 0 >>
bitrateTableHoa2 ==
    << 192000, 256000, 320000, 384000, 480000, 512000, 640000, 0, 0, 0, 0, 0, 0, 0, 0, 0 >>
bitrateTableHoa3 ==
    << 256000, 320000, 384000, 512000, 640000, 896000, 0, 0, 0, 0, 0, 0, 0, 0, 0, 0 >>

\* the NULL bitrateTable pointer of the 10.2 and 22.2 rows
NULL == << >>

\* codecBitrateConfigTable[c].bitrateTable, row c at position c + 1
codecBitrateConfigTable ==
    << bitrateTableMono, bitrateTableStereo, bitrateTableMC5P1, bitrateTableMC7P1,
       NULL, NULL,
       bitrateTableMC4P0, bitrateTableMC5P1P2, bitrateTableMC5P1P4,
       bitrateTableMC7P1P2, bitrateTableMC7P1P4,
       bitrateTableFoa, bitrateTableHoa2, bitrateTableHoa3 >>

(***************************************************************************)
(* Bit reader: MSB-first reads over the header bytes                       *)
(***************************************************************************)
\* bit number index (0 = most significant bit of the first byte)
BitAt(header, index) ==
    LET byte == IF (index \div 8) + 1 <= Len(header) THEN header[(index \div 8) + 1] ELSE 0
    IN  (byte \div (2 ^ (7 - (index % 8)))) % 2

RECURSIVE get_bits(_, _, _)
get_bits(header, index, n) ==
    IF n = 0 THEN 0
    ELSE 2 * get_bits(header, index, n - 1) + BitAt(header, index + n - 1)

\* skip_bits advances the index and reads nothing
skip_bits(index, n) == index + n

(***************************************************************************)
(* Pieces of read_av3a_frame_header                                        *)
(***************************************************************************)
\* a variant: the local starts at a value outside the four content types
content_type_unset == 3 + 1
\* initial value of the local content_type
content_type_init == 0

\* the channel-only switch: channels
ChannelOnlyChannels(channel_config) ==
    CASE channel_config = CHANNEL_CONFIG_MONO     -> 1
      [] channel_config = CHANNEL_CONFIG_STEREO   -> 2
      [] channel_config = CHANNEL_CONFIG_MC_4_0   -> 4
      [] channel_config = CHANNEL_CONFIG_MC_5_1   -> 6
      [] channel_config = CHANNEL_CONFIG_MC_7_1   -> 8
      [] channel_config = CHANNEL_CONFIG_MC_5_1_2 -> 8
      [] channel_config = CHANNEL_CONFIG_MC_5_1_4 -> 10
      [] channel_config = CHANNEL_CONFIG_MC_7_1_2 -> 10
      [] channel_config = CHANNEL_CONFIG_MC_7_1_4 -> 12
      [] channel_config = CHANNEL_CONFIG_MC_22_2  -> 24
      [] OTHER -> 0

\* the channel-only switch: channel_layout
ChannelOnlyLayout(channel_config) ==
    CASE channel_config = CHANNEL_CONFIG_MONO    -> AV_CH_LAYOUT_MONO
      [] channel_config = CHANNEL_CONFIG_STEREO  -> AV_CH_LAYOUT_STEREO
      [] channel_config = CHANNEL_CONFIG_MC_5_1  -> AVS3P3_CH_LAYOUT_5POINT1
      [] channel_config = CHANNEL_CONFIG_MC_7_1  -> AV_CH_LAYOUT_7POINT1
      [] channel_config = CHANNEL_CONFIG_MC_22_2 -> AV_CH_LAYOUT_22POINT2
      [] OTHER -> NO_LAYOUT

\* the scan of mcChannelConfigTable for the sound bed (no break: the last
\* matching row decides; channels stays as it was when no row matches)
RECURSIVE McScan(_, _, _)
McScan(i, channels, channel_config) ==
    IF i >= AVS3_SIZE_MC_CONFIG_TABLE THEN channels
    ELSE McScan(i + 1,
                IF channel_config = mcChannelConfigTable[i + 1].channelNumConfig
                THEN mcChannelConfigTable[i + 1].numChannels
                ELSE channels,
                channel_config)

\* the HOA order switch
HoaChannels(hoa_order) ==
    CASE hoa_order = 1 -> 4
      [] hoa_order = 2 -> 9
      [] hoa_order = 3 -> 16
      [] OTHER -> 0

HoaChannelConfig(hoa_order) ==
    CASE hoa_order = 1 -> CHANNEL_CONFIG_HOA_ORDER1
      [] hoa_order = 2 -> CHANNEL_CONFIG_HOA_ORDER2
      [] hoa_order = 3 -> CHANNEL_CONFIG_HOA_ORDER3
      [] OTHER -> CHANNEL_CONFIG_UNKNOWN

\* the sound bed selector tests
IsObjectsOnlyBed(soundBedType) == soundBedType = 0
\* a variant: a plain else in place of the test soundBedType == 1
AnyOtherBed(soundBedType) == soundBedType # 0
IsMcPlusObjectsBed(soundBedType) == soundBedType = 1

\* a variant: the common bitrate index read on every profile
ReadsAlways(coding_profile) == TRUE
\* the guard of the common bitrate index
ReadsBitrateIndex(coding_profile) == coding_profile # 1

\* whether codecBitrateConfigTable[channel_config].bitrateTable[...] is a
\* defined read: the row exists and its table pointer is not NULL
HasBitrateTable(channel_config) ==
    /\ channel_config >= 0
    /\ channel_config < CHANNEL_CONFIG_UNKNOWN
    /\ codecBitrateConfigTable[channel_config + 1] # NULL

\* codecBitrateConfigTable[channel_config].bitrateTable[idx]; a read through
\* the NULL table or past the last row is undefined: ub is what it does
\* ([crash |-> TRUE] or some value read)
BitrateLookup(channel_config, idx, ub) ==
    IF HasBitrateTable(channel_config)
    THEN [crash |-> FALSE, val |-> codecBitrateConfigTable[channel_config + 1][idx + 1]]
    ELSE ub

(***************************************************************************)
(* read_av3a_frame_header                                                  *)
(***************************************************************************)
\* what a call leaves behind: the return value (or a crash, when an
\* undefined read faults), the output record, the bit reader's index and
\* the bitrate-table reads made, in order
Returned(retval, hdf, index, lookups) ==
    [ret |-> retval, crash |-> FALSE, hdf |-> hdf, index |-> index, lookups |-> lookups]

Crashed(hdf, index, lookups) ==
    [ret |-> 0, crash |-> TRUE, hdf |-> hdf, index |-> index, lookups |-> lookups]

\* the locals as declared, before any branch has run
InitialLocals ==
    [fail |-> FALSE, crash |-> FALSE, index |-> 0, lookups |-> << >>,
     content_type |-> content_type_init, num_chan_index |-> 0,
     channel_config |-> CHANNEL_CONFIG_UNKNOWN,
     channels |-> 0, objects |-> 0, channel_layout |-> NO_LAYOUT,
     hoa_order |-> 0, total_bitrate |-> 0]

\* coding_profile == 0: mono/stereo/MC
BranchChannels(buf, index) ==
    LET num_chan_index == get_bits(buf, index, 7)
        i1 == index + 7
        channel_config == num_chan_index
    IN  IF num_chan_index >= CHANNEL_CONFIG_UNKNOWN
        THEN [InitialLocals EXCEPT !.fail = TRUE, !.index = i1]
        ELSE [InitialLocals EXCEPT
                !.index = i1,
                !.content_type = 0,
                !.num_chan_index = num_chan_index,
                !.channel_config = channel_config,
                !.channels = ChannelOnlyChannels(channel_config),
                !.channel_layout = ChannelOnlyLayout(channel_config)]

\* coding_profile == 1, soundBedType == 0: objects only
BranchObjects(buf, index, ub) ==
    LET objects == get_bits(buf, index, 7) + 1
        i1 == index + 7
        obj_brt_idx == get_bits(buf, i1, 4)
        i2 == i1 + 4
        look == BitrateLookup(CHANNEL_CONFIG_MONO, obj_brt_idx, ub)
        lookups == << [config |-> CHANNEL_CONFIG_MONO, idx |-> obj_brt_idx] >>
    IN  IF look.crash
        THEN [InitialLocals EXCEPT !.crash = TRUE, !.index = i2, !.lookups = lookups]
        ELSE [InitialLocals EXCEPT
                !.index = i2,
                !.lookups = lookups,
                !.content_type = 1,
                !.objects = objects,
                !.total_bitrate = look.val * objects]

\* coding_profile == 1, soundBedType == 1: MC + objects
BranchBedObjects(buf, index, ub) ==
    LET num_chan_index == get_bits(buf, index, 7)
        i1 == index + 7
    IN  IF num_chan_index >= CHANNEL_CONFIG_UNKNOWN
        THEN [InitialLocals EXCEPT !.fail = TRUE, !.index = i1]
        ELSE
        LET bed_brt_idx == get_bits(buf, i1, 4)
            i2 == i1 + 4
            objects == get_bits(buf, i2, 7) + 1
            i3 == i2 + 7
            obj_brt_idx == get_bits(buf, i3, 4)
            i4 == i3 + 4
            channel_config == num_chan_index
            bed == BitrateLookup(channel_config, bed_brt_idx, ub)
            bedLookup == << [config |-> channel_config, idx |-> bed_brt_idx] >>
        IN  IF bed.crash
            THEN [InitialLocals EXCEPT !.crash = TRUE, !.index = i4, !.lookups = bedLookup]
            ELSE
            LET channels == McScan(0, 0, channel_config)
                obj == BitrateLookup(CHANNEL_CONFIG_MONO, obj_brt_idx, ub)
                lookups == Append(bedLookup,
                                  [config |-> CHANNEL_CONFIG_MONO, idx |-> obj_brt_idx])
            IN  IF obj.crash
                THEN [InitialLocals EXCEPT !.crash = TRUE, !.index = i4, !.lookups = lookups]
                ELSE [InitialLocals EXCEPT
                        !.index = i4,
                        !.lookups = lookups,
                        !.content_type = 2,
                        !.num_chan_index = num_chan_index,
                        !.channel_config = channel_config,
                        !.channels = channels,
                        !.objects = objects,
                        !.total_bitrate = bed.val + obj.val * objects]

\* coding_profile == 1: the sound bed type selects the layout
BranchSoundBed(buf, index, ub) ==
    LET soundBedType == get_bits(buf, index, 2)
        i1 == index + 2
    IN  IF IsObjectsOnlyBed(soundBedType) THEN BranchObjects(buf, i1, ub)
        ELSE IF IsMcPlusObjectsBed(soundBedType) THEN BranchBedObjects(buf, i1, ub)
        ELSE [InitialLocals EXCEPT !.index = i1]

\* coding_profile == 2: HOA
BranchHoa(buf, index) ==
    LET hoa_order == (get_bits(buf, index, 4) + 1) % 256
        i1 == index + 4
    IN  [InitialLocals EXCEPT
            !.index = i1,
            !.content_type = 3,
            !.hoa_order = hoa_order,
            !.channels = HoaChannels(hoa_order),
            !.channel_config = HoaChannelConfig(hoa_order)]

\* lines 426-462: the writes to *hdf and the final return
AssembleHeader(hdf0, codec_id, nn_type, samping_rate_index, bitdepth, resolution, resolution_index, loc) ==
    LET h1 == [hdf0 EXCEPT
                 !.codec_id = codec_id,
                 !.sampling_rate_index = samping_rate_index,
                 !.sampling_rate = avs3_samplingrate_table[samping_rate_index + 1],
                 !.bitdepth = bitdepth,
                 !.nn_type = nn_type,
                 !.content_type = loc.content_type]
        done(h) == [ret |-> 0,
                    hdf |-> [h EXCEPT !.total_bitrate = loc.total_bitrate,
                                      !.resolution = resolution,
                                      !.resolution_index = resolution_index]]
    IN  IF h1.content_type = 0
        THEN done([h1 EXCEPT !.channel_num_index = loc.num_chan_index,
                             !.channels = loc.channels % UINT16,
                             !.objects = 0,
                             !.total_channels = loc.channels % UINT16,
                             !.channel_layout = loc.channel_layout])
        ELSE IF h1.content_type = 1
        THEN done([h1 EXCEPT !.objects = loc.objects % UINT16,
                             !.channels = 0,
                             !.total_channels = loc.objects % UINT16])
        ELSE IF h1.content_type = 2
        THEN done([h1 EXCEPT !.channel_num_index = loc.num_chan_index,
                             !.channels = loc.channels % UINT16,
                             !.objects = loc.objects % UINT16,
                             !.total_channels = (loc.channels + loc.objects) % UINT16,
                             !.channel_layout = loc.channel_layout])
        ELSE IF h1.content_type = 3
        THEN done([h1 EXCEPT !.hoa_order = loc.hoa_order,
                             !.channels = loc.channels % UINT16,
                             !.total_channels = loc.channels % UINT16])
        ELSE [ret |-> AVERROR_INVALIDDATA, hdf |-> h1]

\* lines 398-462: resolution index, common bitrate index, second CRC byte
HeaderTail(hdf0, buf, codec_id, nn_type, coding_profile, samping_rate_index, loc, ub) ==
    LET resolution_index == get_bits(buf, loc.index, 2)
        i1 == loc.index + 2
    IN  IF resolution_index > 2
        THEN Returned(AVERROR_INVALIDDATA, hdf0, i1, loc.lookups)
        ELSE
        LET bitdepth == IF resolution_index = 1 THEN AV_SAMPLE_FMT_S16
                        ELSE IF resolution_index = 0 THEN AV_SAMPLE_FMT_U8 ELSE 0
            resolution == CASE resolution_index = 0 -> 8
                            [] resolution_index = 1 -> 16
                            [] OTHER -> 24
            reads == ReadsBitrateIndex(coding_profile)
            brt_idx == get_bits(buf, i1, 4)
            i2 == IF reads THEN i1 + 4 ELSE i1
            look == IF reads THEN BitrateLookup(loc.channel_config, brt_idx, ub)
                    ELSE [crash |-> FALSE, val |-> loc.total_bitrate]
            lookups == IF reads
                       THEN Append(loc.lookups, [config |-> loc.channel_config, idx |-> brt_idx])
                       ELSE loc.lookups
        IN  IF look.crash
            THEN Crashed(hdf0, i2, lookups)
            ELSE
            LET i3 == skip_bits(i2, 8)
                a == AssembleHeader(hdf0, codec_id, nn_type, samping_rate_index, bitdepth,
                                    resolution, resolution_index,
                                    [loc EXCEPT !.total_bitrate = look.val])
            IN  Returned(a.ret, a.hdf, i3, lookups)

\* lines 265-396 seen from their end: a branch has faulted, has returned
\* the error, or goes on to the common tail
AfterBranch(hdf0, buf, codec_id, nn_type, coding_profile, samping_rate_index, loc, ub) ==
    IF loc.crash THEN Crashed(hdf0, loc.index, loc.lookups)
    ELSE IF loc.fail THEN Returned(AVERROR_INVALIDDATA, hdf0, loc.index, loc.lookups)
    ELSE HeaderTail(hdf0, buf, codec_id, nn_type, coding_profile, samping_rate_index, loc, ub)

\* lines 250-396: nn type, coding profile, sampling index, first CRC byte
\* and the branch the coding profile selects
HeaderBody(hdf0, buf, codec_id, nn_type, coding_profile, samping_rate_index, ub) ==
    IF samping_rate_index >= AVS3_SIZE_FS_TABLE
    THEN Returned(AVERROR_INVALIDDATA, hdf0, 27, << >>)
    ELSE IF coding_profile = 0
    THEN AfterBranch(hdf0, buf, codec_id, nn_type, coding_profile, samping_rate_index,
                     BranchChannels(buf, skip_bits(27, 8)), ub)
    ELSE IF coding_profile = 1
    THEN AfterBranch(hdf0, buf, codec_id, nn_type, coding_profile, samping_rate_index,
                     BranchSoundBed(buf, skip_bits(27, 8), ub), ub)
    ELSE IF coding_profile = 2
    THEN AfterBranch(hdf0, buf, codec_id, nn_type, coding_profile, samping_rate_index,
                     BranchHoa(buf, skip_bits(27, 8)), ub)
    ELSE Returned(AVERROR_INVALIDDATA, hdf0, skip_bits(27, 8), << >>)

\* the whole function; ub is what an undefined table read does
read_av3a_frame_header(hdf0, buf, ub) ==
    IF get_bits(buf, 0, 12) # AVS3_AUDIO_SYNC_WORD
    THEN Returned(AVERROR_INVALIDDATA, hdf0, 12, << >>)
    ELSE IF get_bits(buf, 12, 4) # AVS3_CODEC_ID
    THEN Returned(AVERROR_INVALIDDATA, hdf0, 16, << >>)
    ELSE IF get_bits(buf, 16, 1) # 0
    THEN Returned(AVERROR_INVALIDDATA, hdf0, 17, << >>)
    ELSE HeaderBody(hdf0, buf, get_bits(buf, 12, 4), get_bits(buf, 17, 3),
                    get_bits(buf, 20, 3), get_bits(buf, 23, 4), ub)

(***************************************************************************)
(* raw_av3a_parse                                                          *)
(***************************************************************************)
\* a variant: the size test made against AVS3_AUDIO_HEADER_SIZE
NeedsHeaderSizeOnly(buf_size) == buf_size < AVS3_AUDIO_HEADER_SIZE
\* the early return: fewer bytes than a full header
NeedMoreData(buf_size) == buf_size < MAX_NBYTES_FRAME_HEADER

\* memcpy(header, buf, MAX_NBYTES_FRAME_HEADER)
CopyHeader(buf) ==
    [i \in 1..MAX_NBYTES_FRAME_HEADER |-> IF i <= Len(buf) THEN buf[i] ELSE 0]

\* lines 480-495: after the header read, r being what it left
AfterHeader(ctx, buf, buf_size, header, hdf0, r) ==
    [ctx |-> IF r.crash \/ r.ret # 0 THEN ctx
             ELSE [avctx |-> [sample_rate |-> r.hdf.sampling_rate,
                              bit_rate |-> r.hdf.total_bitrate,
                              channels |-> r.hdf.total_channels,
                              channel_layout |-> r.hdf.channel_layout,
                              frame_size |-> AVS3_AUDIO_FRAME_SIZE],
                   format |-> r.hdf.bitdepth,
                   poutbuf |-> buf,
                   poutbuf_size |-> buf_size],
     ret |-> IF r.crash \/ r.ret # 0 THEN r.ret ELSE buf_size,
     crash |-> r.crash, decoded |-> TRUE,
     bytesRead |-> MAX_NBYTES_FRAME_HEADER, header |-> header,
     hdfPre |-> hdf0, hdf |-> r.hdf, hret |-> r.ret,
     index |-> r.index, lookups |-> r.lookups]

\* lines 468-479, hdf0 being the local hdf once its channel_layout is zeroed
ParseWith(ctx, buf, buf_size, hdf0, ub) ==
    IF NeedMoreData(buf_size)
    THEN [ctx |-> ctx, ret |-> buf_size, crash |-> FALSE, decoded |-> FALSE,
          bytesRead |-> 0, header |-> << >>, hdfPre |-> hdf0, hdf |-> hdf0,
          hret |-> 0, index |-> 0, lookups |-> << >>]
    ELSE AfterHeader(ctx, buf, buf_size, CopyHeader(buf), hdf0,
                     read_av3a_frame_header(hdf0, CopyHeader(buf), ub))

\* One call. ctx is what the call may write (avctx, s->format, *poutbuf,
\* *poutbuf_size); garbage is what the uninitialised local hdf holds; ub is
\* what an undefined table read does. The result is the context after the
\* call, the return value and what the call did.
raw_av3a_parse(ctx, buf, buf_size, garbage, ub) ==
    ParseWith(ctx, buf, buf_size, [garbage EXCEPT !.channel_layout = NO_LAYOUT], ub)

(***************************************************************************)
(* Bounds and the inputs drawn from them                                   *)
(***************************************************************************)
\* parser calls in a run
MaxCalls == 2
\* bytes a chunk may hold beyond the 9 header bytes
MaxExtraBytes == 1
\* channel configuration indices 0..MaxConfigIndex (and 127) are fed
MaxConfigIndex == 15
\* HOA order fields 0..MaxHoaField (and 15) are fed
MaxHoaField == 4

Bits(v, w) == [i \in 1..w |-> (v \div (2 ^ (w - i))) % 2]

RECURSIVE FieldBits(_)
FieldBits(fields) ==
    IF fields = << >> THEN << >>
    ELSE Bits(Head(fields)[1], Head(fields)[2]) \o FieldBits(Tail(fields))

\* the 9 bytes holding the fields in order, MSB first, the rest filled with pad
Frame(fields, pad) ==
    LET fb == FieldBits(fields)
        bits == fb \o [i \in 1..(8 * MAX_NBYTES_FRAME_HEADER - Len(fb)) |-> pad]
    IN  [k \in 1..MAX_NBYTES_FRAME_HEADER |->
            128 * bits[8 * k - 7] + 64 * bits[8 * k - 6] + 32 * bits[8 * k - 5]
            + 16 * bits[8 * k - 4] + 8 * bits[8 * k - 3] + 4 * bits[8 * k - 2]
            + 2 * bits[8 * k - 1] + bits[8 * k]]

Prefix(sync, codec_id, anc, nn_type, coding_profile, sr_index, crc1) ==
    << <<sync, 12>>, <<codec_id, 4>>, <<anc, 1>>, <<nn_type, 3>>,
       <<coding_profile, 3>>, <<sr_index, 4>>, <<crc1, 8>> >>

PrefixVariants ==
    { [nn |-> 0, sr |-> 2, crc |-> 165, pad |-> 0],
      [nn |-> 5, sr |-> 8, crc |-> 0, pad |-> 1] }

ValidPrefix(v, coding_profile) ==
    Prefix(AVS3_AUDIO_SYNC_WORD, AVS3_CODEC_ID, 0, v.nn, coding_profile, v.sr, v.crc)

ConfigSamples == (0..MaxConfigIndex) \cup {127}
HoaSamples == (0..MaxHoaField) \cup {15}
BitrateIndexSamples == {0, 4, 15}
BedBitrateIndexSamples == {1, 4}
ObjectSamples ==
    { [field |-> 0, brt |-> 0], [field |-> 3, brt |-> 2],
      [field |-> 127, brt |-> 11], [field |-> 1, brt |-> 15] }

ChannelFrames ==
    { Frame(ValidPrefix(v, 0) \o << <<c, 7>>, <<res, 2>>, <<b, 4>>, <<v.crc, 8>> >>, v.pad) :
        v \in PrefixVariants, c \in ConfigSamples, res \in 0..3, b \in BitrateIndexSamples }

ObjectFrames ==
    { Frame(ValidPrefix(v, 1) \o << <<0, 2>>, <<o.field, 7>>, <<o.brt, 4>>, <<res, 2>>,
                                    <<v.crc, 8>> >>, v.pad) :
        v \in PrefixVariants, o \in ObjectSamples, res \in 0..3 }

BedObjectFrames ==
    { Frame(ValidPrefix(v, 1) \o << <<1, 2>>, <<c, 7>>, <<bb, 4>>, <<o.field, 7>>,
                                    <<o.brt, 4>>, <<res, 2>>, <<v.crc, 8>> >>, v.pad) :
        v \in PrefixVariants, c \in ConfigSamples, bb \in BedBitrateIndexSamples,
        o \in ObjectSamples, res \in 0..3 }

OtherBedFrames ==
    { Frame(ValidPrefix(v, 1) \o << <<sel, 2>>, <<res, 2>>, <<v.crc, 8>> >>, v.pad) :
        v \in PrefixVariants, sel \in {2, 3}, res \in 0..3 }

HoaFrames ==
    { Frame(ValidPrefix(v, 2) \o << <<h, 4>>, <<res, 2>>, <<b, 4>>, <<v.crc, 8>> >>, v.pad) :
        v \in PrefixVariants, h \in HoaSamples, res \in 0..3, b \in BitrateIndexSamples }

BadPrefixFrames ==
    { Frame(Prefix(f[1], f[2], f[3], 0, f[4], f[5], 165)
            \o << <<1, 7>>, <<1, 2>>, <<0, 4>>, <<0, 8>> >>, 0) :
        f \in { <<4094, 2, 0, 0, 2>>, <<2047, 2, 0, 0, 2>>, <<4095, 0, 0, 0, 2>>,
                <<4095, 3, 0, 0, 2>>, <<4095, 2, 1, 0, 2>>, <<4095, 2, 0, 0, 9>>,
                <<4095, 2, 0, 0, 15>>, <<4095, 2, 0, 3, 2>>, <<4095, 2, 0, 7, 2>> } }

Frames ==
    ChannelFrames \cup ObjectFrames \cup BedObjectFrames \cup OtherBedFrames
    \cup HoaFrames \cup BadPrefixFrames

\* chunks longer than a header: a frame followed by payload bytes
LongChunks ==
    { f \o [i \in 1..n |-> 90] : f \in OtherBedFrames \cup BadPrefixFrames, n \in 1..MaxExtraBytes }

Inputs == Frames \cup LongChunks

\* sizes of the short chunks a caller may come back with
ShortSizes == {0, 8}

FollowUps(b) == {b} \cup { SubSeq(b, 1, n) : n \in { k \in ShortSizes : k < Len(b) } }

\* what the uninitialised local hdf may hold on entry
StackGarbage ==
    { [codec_id |-> 0, sampling_rate_index |-> 0, sampling_rate |-> 0, bitdepth |-> 0,
       channels |-> 0, objects |-> 0, hoa_order |-> 0, channel_layout |-> NO_LAYOUT,
       total_bitrate |-> 0, content_type |-> 0, channel_num_index |-> 0,
       total_channels |-> 0, resolution |-> 0, nn_type |-> 0, resolution_index |-> 0],
      [codec_id |-> 7, sampling_rate_index |-> 3, sampling_rate |-> 44100, bitdepth |-> 1,
       channels |-> 5, objects |-> 9, hoa_order |-> 2, channel_layout |-> AV_CH_LAYOUT_STEREO,
       total_bitrate |-> 1000, content_type |-> 2, channel_num_index |-> 6,
       total_channels |-> 3, resolution |-> 16, nn_type |-> 1, resolution_index |-> 1] }

\* what a read through a NULL table or past the table's last row may do
UndefinedReads ==
    { [crash |-> TRUE, val |-> 0], [crash |-> FALSE, val |-> 0],
      [crash |-> FALSE, val |-> 31337] }

(***************************************************************************)
(* The state machine: a caller feeding chunks to the parser                *)
(***************************************************************************)
VARIABLES
    pc,        \* "ready": a chunk waits; "returned"; "crashed"
    buf,       \* the chunk handed to the parser
    calls,     \* calls made so far
    ctx,       \* avctx, s->format, *poutbuf, *poutbuf_size
    before,    \* ctx as the last call found it
    last,      \* what the last call did
    prev       \* what the call before it did

vars == << pc, buf, calls, ctx, before, last, prev >>

InitialContext ==
    [avctx |-> [sample_rate |-> 0, bit_rate |-> 0, channels |-> 0,
                channel_layout |-> NO_LAYOUT, frame_size |-> 0],
     format |-> -1, poutbuf |-> << >>, poutbuf_size |-> 0]

NoCall ==
    [buf |-> << >>, ret |-> 0, crash |-> FALSE, decoded |-> FALSE, bytesRead |-> 0,
     header |-> << >>, hret |-> 0, index |-> 0, lookups |-> << >>,
     hdfPre |-> CHOOSE g \in StackGarbage : g.codec_id = 0,
     hdf |-> CHOOSE g \in StackGarbage : g.codec_id = 0]

Init ==
    /\ pc = "ready"
    /\ buf \in Inputs
    /\ calls = 0
    /\ ctx = InitialContext
    /\ before = InitialContext
    /\ last = NoCall
    /\ prev = NoCall

\* the caller's view of a call that left r
CallDone(r) ==
    /\ pc' = IF r.crash THEN "crashed" ELSE "returned"
    /\ ctx' = r.ctx
    /\ before' = ctx
    /\ last' = [f \in DOMAIN NoCall |-> IF f = "buf" THEN buf ELSE r[f]]
    /\ prev' = last
    /\ calls' = calls + 1
    /\ UNCHANGED buf

Parse ==
    /\ pc = "ready"
    /\ \E garbage \in StackGarbage, ub \in UndefinedReads :
          CallDone(raw_av3a_parse(ctx, buf, Len(buf), garbage, ub))

\* the caller comes back with the same chunk or with a short one
Feed ==
    /\ pc = "returned"
    /\ calls < MaxCalls
    /\ buf' \in FollowUps(buf)
    /\ pc' = "ready"
    /\ UNCHANGED << calls, ctx, before, last, prev >>

Next == Parse \/ Feed

Spec == Init /\ [][Next]_vars

(***************************************************************************)
(* The wire layout, read off the header bytes of the last call             *)
(***************************************************************************)
LastHeader == last.header
LastSync == get_bits(LastHeader, 0, 12)
LastCodec == get_bits(LastHeader, 12, 4)
LastAnc == get_bits(LastHeader, 16, 1)
LastProfile == get_bits(LastHeader, 20, 3)
LastSrIndex == get_bits(LastHeader, 23, 4)
LastSelector == get_bits(LastHeader, 35, 2)

\* the fields checked before the branch are all valid
ValidLead ==
    /\ last.decoded
    /\ LastSync = AVS3_AUDIO_SYNC_WORD
    /\ LastCodec = AVS3_CODEC_ID
    /\ LastAnc = 0
    /\ LastSrIndex < AVS3_SIZE_FS_TABLE

\* where the layout puts the 2-bit resolution index
ResolutionPos ==
    CASE LastProfile = 0 -> 42
      [] LastProfile = 1 /\ LastSelector = 0 -> 48
      [] LastProfile = 1 /\ LastSelector = 1 -> 59
      [] LastProfile = 1 /\ LastSelector > 1 -> 37
      [] OTHER -> 39
LastResolutionIndex == get_bits(LastHeader, ResolutionPos, 2)

\* a full-size call that returned a decoded header
Succeeded == last.decoded /\ ~last.crash /\ last.hret = 0
Failed == last.decoded /\ ~last.crash /\ last.hret # 0
DirtyRecord == last.hdfPre.codec_id = 7

\* the channel count the named multichannel table gives a configuration
NamedBedChannels(c) ==
    IF \E i \in 1..Len(mcChannelConfigTable) : mcChannelConfigTable[i].channelNumConfig = c
    THEN (CHOOSE row \in { mcChannelConfigTable[i] : i \in 1..Len(mcChannelConfigTable) } :
            row.channelNumConfig = c).numChannels
    ELSE 0

\* the channel counts of the fixed mapping: mono, stereo, 5.1, 7.1, 22.2,
\* 4.0, 5.1.2, 5.1.4, 7.1.2, 7.1.4
ListedChannels ==
    [c \in {0, 1, 2, 3, 5, 6, 7, 8, 9, 10} |->
        CASE c = 0 -> 1 [] c = 1 -> 2 [] c = 2 -> 6 [] c = 3 -> 8 [] c = 5 -> 24
          [] c = 6 -> 4 [] c = 7 -> 8 [] c = 8 -> 10 [] c = 9 -> 10 [] OTHER -> 12]
NamedLayoutConfigs == {0, 1, 2, 3, 5}

(***************************************************************************)
(* Claims                                                                  *)
(***************************************************************************)
\* C1: when read_av3a_frame_header returns a failure, the output record is
\* exactly what it was before the call: no field has been written.
C1_FailureLeavesRecord == Failed => last.hdf = last.hdfPre

\* C1 witness: a failure at the resolution index (after the branch fields),
\* on a record that held non-zero values before the call.
C1_Witness == Failed /\ DirtyRecord /\ last.index > 35 /\ last.hdf = last.hdfPre

\* C2: after every successful decode the record has
\* total_channels = channels + objects, whatever it held before.
C2_TotalIsSum ==
    Succeeded => last.hdf.total_channels = last.hdf.channels + last.hdf.objects

\* C3: decoding is a pure function of the 9 header bytes: two calls on the
\* same bytes give the same return value and the same record in every field,
\* whatever the record held before, and the fields the content type does not
\* use come out zero.
C3_PureFunction ==
    /\ (/\ last.decoded /\ ~last.crash
        /\ prev.decoded /\ ~prev.crash
        /\ last.header = prev.header)
       => (last.hret = prev.hret /\ last.hdf = prev.hdf)
    /\ Succeeded =>
        /\ last.hdf.content_type = 0 => last.hdf.hoa_order = 0
        /\ last.hdf.content_type = 1 =>
              /\ last.hdf.hoa_order = 0
              /\ last.hdf.channel_num_index = 0
              /\ last.hdf.channel_layout = NO_LAYOUT
        /\ last.hdf.content_type = 2 => last.hdf.hoa_order = 0
        /\ last.hdf.content_type = 3 =>
              /\ last.hdf.objects = 0
              /\ last.hdf.channel_num_index = 0
              /\ last.hdf.channel_layout = NO_LAYOUT

\* C4 as stated: on every path the bits consumed (reads and skips, the
\* trailing CRC byte included) are at most 56.
C4_ConsumedAtMost56 == last.decoded => last.index <= 56

\* C4 amended: on every path the bits consumed are at most 69, and so never
\* exceed the 72 bits of the 9-byte buffer.
C4_ConsumedAtMost69 ==
    last.decoded => (last.index <= 69 /\ last.index <= 8 * MAX_NBYTES_FRAME_HEADER)

\* C4 witness: a successful bed + objects decode, which consumes 69 bits.
C4_Witness == Succeeded /\ last.hdf.content_type = 2 /\ last.index = 69

\* C5: a header with coding profile 1, sound bed selector 1, a bed
\* configuration index below 14 (and otherwise valid) decodes successfully
\* with objects = object field + 1, channels = the named multichannel
\* table's count for the bed (0 without a row), total_channels = channels +
\* objects and total_bitrate = bedTable[bed index] + monoTable[object index]
\* * objects.
C5_BedObjectsDecode ==
    (/\ ValidLead /\ LastProfile = 1 /\ LastSelector = 1
     /\ get_bits(LastHeader, 37, 7) < CHANNEL_CONFIG_UNKNOWN
     /\ LastResolutionIndex # 3)
    => /\ Succeeded
       /\ last.hdf.objects = get_bits(LastHeader, 48, 7) + 1
       /\ last.hdf.channels = NamedBedChannels(get_bits(LastHeader, 37, 7))
       /\ last.hdf.total_channels = last.hdf.channels + last.hdf.objects
       /\ HasBitrateTable(get_bits(LastHeader, 37, 7)) =>
            last.hdf.total_bitrate =
                codecBitrateConfigTable[get_bits(LastHeader, 37, 7) + 1]
                                       [get_bits(LastHeader, 44, 4) + 1]
                + bitrateTableMono[get_bits(LastHeader, 55, 4) + 1] * last.hdf.objects

\* C6: with coding profile 0 and an otherwise valid header, each
\* configuration of the fixed mapping decodes successfully to its listed
\* channel count, with objects = 0, total_channels = channels, and a layout
\* exactly for mono, stereo, 5.1, 7.1 and 22.2.
C6_ChannelOnlyMapping ==
    (/\ ValidLead /\ LastProfile = 0
     /\ get_bits(LastHeader, 35, 7) \in DOMAIN ListedChannels
     /\ LastResolutionIndex # 3)
    => /\ Succeeded
       /\ last.hdf.channels = ListedChannels[get_bits(LastHeader, 35, 7)]
       /\ last.hdf.objects = 0
       /\ last.hdf.total_channels = last.hdf.channels
       /\ (last.hdf.channel_layout # NO_LAYOUT)
            <=> (get_bits(LastHeader, 35, 7) \in NamedLayoutConfigs)

\* C7: whatever the coding profile and the fields before it, a header whose
\* resolution index is 3 makes the decode return a failure and nothing else;
\* indices 0, 1, 2 give resolution 8, 16, 24.
C7_ResolutionThreeFails ==
    /\ (last.decoded /\ LastProfile <= 2 /\ LastResolutionIndex = 3) => Failed
    /\ Succeeded => last.hdf.resolution = 8 * (LastResolutionIndex + 1)

\* C8: in any sequence of calls, a call given fewer than 9 bytes does not
\* invoke the header decode, reads no input byte, returns the byte count it
\* was given (no error), and leaves avctx, s->format, *poutbuf and
\* *poutbuf_size as they were.
C8_ShortCallIsNoOp ==
    (calls > 0 /\ Len(last.buf) < MAX_NBYTES_FRAME_HEADER)
    => /\ ~last.decoded
       /\ ~last.crash
       /\ last.bytesRead = 0
       /\ last.ret = Len(last.buf)
       /\ last.ret >= 0
       /\ ctx = before

\* C8 witness: an 8-byte call made after a successful one has set the
\* stream descriptor.
C8_Witness ==
    /\ calls > 1
    /\ pc = "returned"
    /\ Len(last.buf) = 8
    /\ last.ret = 8
    /\ prev.decoded /\ prev.hret = 0
    /\ ctx.avctx.frame_size = AVS3_AUDIO_FRAME_SIZE
    /\ ctx = before

\* C9: every bitrate-table read made during a decode uses a channel
\* configuration below 14 that has a bitrate table, and an index within the
\* table's 16 entries.
C9_LookupsDefined ==
    \A i \in 1..Len(last.lookups) :
        /\ last.lookups[i].config < CHANNEL_CONFIG_UNKNOWN
        /\ HasBitrateTable(last.lookups[i].config)
        /\ last.lookups[i].idx \in 0..(AVS3_SIZE_BITRATE_TABLE - 1)

\* C10: with coding profile 1, a sound bed selector that is neither 0 nor 1
\* and the validated fields valid, the decode succeeds with channels,
\* objects, total_channels and total_bitrate 0 and no layout, and reads the
\* resolution index right after the selector: 37 + 2 + 8 bits in all, no
\* bitrate table touched.
C10_OtherBedZeroFill ==
    (/\ ValidLead /\ LastProfile = 1 /\ LastSelector > 1
     /\ LastResolutionIndex # 3)
    => /\ Succeeded
       /\ last.hdf.channels = 0
       /\ last.hdf.objects = 0
       /\ last.hdf.total_channels = 0
       /\ last.hdf.channel_layout = NO_LAYOUT
       /\ last.hdf.total_bitrate = 0
       /\ last.index = 47
       /\ last.lookups = << >>

\* C10 witness: selector 3 decoded over a record that held non-zero values.
C10_Witness ==
    /\ ValidLead /\ LastProfile = 1 /\ LastSelector = 3
    /\ Succeeded /\ DirtyRecord
    /\ last.hdf.channels = 0 /\ last.hdf.total_bitrate = 0

====
